---- MODULE Spec2Model ----
(***************************************************************************)
(* A model of the go-metrics core: EWMA (metrics/ewma.go), Meter and       *)
(* Histogram.  Three specifications share the module:                      *)
(*   SpecMeter  one Meter, its tick-watcher goroutine, the runtime timer   *)
(*              and a set of caller goroutines calling Update and Stop;    *)
(*   SpecEWMA   one EWMA driven sequentially by Update and Tick;           *)
(*   SpecHist   one Histogram over a bounded reservoir, driven             *)
(*              sequentially by Update and Clear.                          *)
(* float64 values are modelled as exact rationals <<n, d>> (d > 0, lowest  *)
(* terms); d = 0 encodes the non-finite values: <<0,0>> is NaN, <<1,0>>    *)
(* is +Inf and <<-1,0>> is -Inf.  Rounding is not modelled.                *)
(***************************************************************************)
EXTENDS Integers, Sequences, FiniteSets, TLC

(***************************************************************************)
(* float64 arithmetic                                                      *)
(***************************************************************************)
Abs(x) == IF x < 0 THEN -x ELSE x

Sgn(x) == IF x < 0 THEN -1 ELSE IF x > 0 THEN 1 ELSE 0

RECURSIVE GCD(_, _)
GCD(a, b) == IF b = 0 THEN a ELSE GCD(b, a % b)

\* n/d for d # 0, in lowest terms with a positive denominator
Norm(n, d) ==
    LET g == GCD(Abs(n), Abs(d))
    IN  <<Sgn(d) * (n \div g), Abs(d) \div g>>

NaN == <<0, 0>>

Zero == <<0, 1>>

One == <<1, 1>>

IsNaN(a) == a[2] = 0 /\ a[1] = 0

IsFinite(a) == a[2] > 0

FromInt(i) == <<i, 1>>

FNeg(a) == <<-a[1], a[2]>>

FAdd(a, b) ==
    IF IsFinite(a) /\ IsFinite(b)
    THEN LET g == GCD(a[2], b[2])
             l == (a[2] \div g) * b[2]
         IN  Norm(a[1] * (l \div a[2]) + b[1] * (l \div b[2]), l)
    ELSE IF IsNaN(a) \/ IsNaN(b) THEN NaN
    ELSE IF IsFinite(a) THEN b
    ELSE IF IsFinite(b) THEN a
    ELSE IF a = b THEN a ELSE NaN

FSub(a, b) == FAdd(a, FNeg(b))

FMul(a, b) ==
    IF IsFinite(a) /\ IsFinite(b)
    THEN LET g1 == GCD(Abs(a[1]), b[2])
             g2 == GCD(Abs(b[1]), a[2])
         IN  IF a[1] = 0 \/ b[1] = 0 THEN Zero
             ELSE <<(a[1] \div g1) * (b[1] \div g2), (a[2] \div g2) * (b[2] \div g1)>>
    ELSE IF IsNaN(a) \/ IsNaN(b) \/ a[1] = 0 \/ b[1] = 0 THEN NaN
    ELSE <<Sgn(a[1]) * Sgn(b[1]), 0>>

FDiv(a, b) ==
    IF IsFinite(a) /\ IsFinite(b)
    THEN IF b[1] = 0
         THEN <<Sgn(a[1]), 0>>
         ELSE FMul(a, <<Sgn(b[1]) * b[2], Abs(b[1])>>)
    ELSE IF IsNaN(a) \/ IsNaN(b) THEN NaN
    ELSE IF IsFinite(a) THEN Zero
    ELSE IF IsFinite(b) THEN <<a[1] * (IF b[1] < 0 THEN -1 ELSE 1), 0>>
    ELSE NaN

\* a < b; every comparison with NaN is false
FLess(a, b) ==
    IF IsNaN(a) \/ IsNaN(b) THEN FALSE
    ELSE IF IsFinite(a) /\ IsFinite(b) THEN a[1] * b[2] < b[1] * a[2]
    ELSE IF IsFinite(a) THEN b[1] > 0
    ELSE IF IsFinite(b) THEN a[1] < 0
    ELSE a[1] < b[1]

\* a == b; NaN equals nothing
FEq(a, b) == ~IsNaN(a) /\ ~IsNaN(b) /\ a = b

(***************************************************************************)
(* Bounds of the model                                                     *)
(***************************************************************************)
\* events from outside the Meter: calls of Update or Stop, and ticker firings
MaxEvents == 3

\* Update calls and Tick calls on the EWMA of SpecEWMA
MaxEwmaUpdates == 3

MaxEwmaTicks == 3

\* largest value passed to EWMA.Update
MaxEwmaValue == 2

\* Update and Clear calls on the Histogram of SpecHist
MaxHistOps == 5

\* largest value passed to Histogram.Update (the smallest is -1)
MaxHistValue == 1

\* capacity of the Histogram's reservoir
ReservoirSize == 2

\* the values 1..SeriesLen fed to the Histogram of SpecSeries
SeriesLen == 100

\* minutes after NewMeter at which MeanRate is read
MaxElapsed == 2

\* events from outside the reporter's goroutines: Start calls, Stop calls and
\* ticker firings
MaxReporterEvents == 5

\* the goroutines calling Update and Stop on the Meter
Callers == {1, 2}

\* the deltas passed to Meter.Update
Deltas == {1, 2}

(***************************************************************************)
(* State                                                                   *)
(***************************************************************************)
VARIABLES
    \* Meter fields
    ewmas,            \* m1Rate, m5Rate, m15Rate: the three *EWMA
    count,            \* uint64 total
    startTime,        \* time.Time
    ticker,           \* *time.Ticker field: "ticker" or "nil"
    tickerStopChan,   \* chan bool field: "chan" or "nil"
    \* runtime objects the fields point to
    timerRunning,     \* the Ticker has not been stopped
    tickerC,          \* values buffered in ticker.C (capacity 1)
    stopChanClosed,   \* the channel made in NewMeter has been closed
    \* the tickWatcher goroutine
    wpc, wi, wcount,
    \* the caller goroutines
    pc, idx, delta, tmp,
    panicked,         \* a goroutine panicked: the process is gone
    \* history
    events,           \* calls started and ticker firings so far
    stopReturned,     \* some Stop() call has returned
    completedSum,     \* sum of the deltas of the Update calls that returned
    consumed,         \* per EWMA: sum of the accumulator values its Ticks took
    tickLog,          \* the Tick calls begun and ended in the latest firing
    \* SpecEWMA: one EWMA used from a single goroutine
    ewma,             \* the EWMA
    ewTicks,          \* Tick calls so far
    ewUpdates,        \* Update calls so far
    feed,             \* the caller's constant feed: its value, the rate it
                      \* started from, its completed rounds, its next call
    instantRates,     \* the instant rates the Tick calls have computed
    \* SpecHist: one Histogram used from a single goroutine
    hist,             \* the Histogram's own fields
    sample,           \* its Sample
    cleared,          \* Clear has been called
    observed,         \* <<value, random draw>> of each Update since NewHistogram or Clear
    histOps,          \* Update and Clear calls so far
    \* SpecReporter
    rTicker,          \* r.ticker: 0 for nil, else the number of a ticker
    rCloseChan,       \* r.closeChan: 0 for nil, else the number of a channel
    rTickers,         \* the tickers made so far: running, and the buffer of C
    rChans,           \* the channels made so far: TRUE once closed
    rGos,             \* the goroutines started so far: position, the ticker
                      \* channel captured in ch, the close channel waited on
    rEvents,          \* Start calls, Stop calls and timer firings so far
    rPanicked         \* a close of a closed or nil channel has panicked

meterVars == <<ewmas, count, startTime, ticker, tickerStopChan, timerRunning,
               tickerC, stopChanClosed, wpc, wi, wcount, pc, idx, delta, tmp,
               panicked, events, stopReturned, completedSum,
               consumed, tickLog>>

ewmaVars == <<ewma, ewTicks, ewUpdates, feed, instantRates>>

histVars == <<hist, sample, cleared, observed, histOps>>

reporterVars == <<rTicker, rCloseChan, rTickers, rChans, rGos, rEvents, rPanicked>>

vars == <<meterVars, ewmaVars, histVars, reporterVars>>

(***************************************************************************)
(* EWMA (metrics/ewma.go)                                                  *)
(***************************************************************************)
\* 1 - exp(-5/60), 1 - exp(-5/60/5), 1 - exp(-5/60/15), to three digits
M1_ALPHA == <<2, 25>>

M5_ALPHA == <<2, 121>>

M15_ALPHA == <<2, 361>>

NewEWMA(interval, alpha) ==
    [interval |-> interval, alpha |-> alpha, uncounted |-> Zero, rate |-> Zero]

\* EWMAUpdate with a fault: the value is added to the rate as well
EWMAUpdate_AlsoRate(self, value) ==
    [self EXCEPT !.uncounted = FAdd(self.uncounted, value),
                 !.rate = FAdd(self.rate, value)]

EWMAUpdate(self, value) ==
    [self EXCEPT !.uncounted = FAdd(self.uncounted, value)]

\* InstantRate with a fault: the count is not divided by the interval
InstantRate_NoInterval(self, cnt) == cnt

InstantRate(self, cnt) == FDiv(cnt, FromInt(self.interval))

\* TickRate with a fault: the old rate is not subtracted before smoothing
TickRate_NoDecay(self, cnt) ==
    LET instantRate == InstantRate(self, cnt)
    IN  IF FEq(self.rate, Zero)
        THEN instantRate
        ELSE FAdd(self.rate, FMul(self.alpha, instantRate))

\* the rate Tick stores, given the accumulator value cnt it read
TickRate(self, cnt) ==
    LET instantRate == InstantRate(self, cnt)
    IN  IF FEq(self.rate, Zero)
        THEN instantRate
        ELSE FAdd(self.rate, FMul(self.alpha, FSub(instantRate, self.rate)))

EWMATick(self) ==
    [self EXCEPT !.uncounted = Zero, !.rate = TickRate(self, self.uncounted)]

EWMARate(self) == self.rate

(***************************************************************************)
(* Meter                                                                   *)
(***************************************************************************)
\* seconds between firings of the Meter's ticker
TickInterval == 5

\* the EWMAs in the order tick() and Update() go through them
\* EwmaOrder with a fault: the 5-minute EWMA comes first
EwmaOrder_M5First == <<"m5Rate", "m1Rate", "m15Rate">>

EwmaOrder == <<"m1Rate", "m5Rate", "m15Rate">>

EwmaNames == {"m1Rate", "m5Rate", "m15Rate"}

\* the zero time.Time, and the largest time.Duration (math.MaxInt64 ns), in minutes
ZeroTime == 0

MaxDuration == 153722867

\* the wall clock when NewMeter runs, in minutes since the zero Time
NewMeterTime == 1065000000

\* t.Sub(u): the difference, which time.Time.Sub saturates at the largest Duration
TimeSub(t, u) == IF t - u > MaxDuration THEN MaxDuration ELSE t - u

NewMeter ==
    /\ ewmas = [m1Rate |-> NewEWMA(TickInterval, M1_ALPHA),
                m5Rate |-> NewEWMA(TickInterval, M5_ALPHA),
                m15Rate |-> NewEWMA(TickInterval, M15_ALPHA)]
    /\ count = 0
    /\ startTime = ZeroTime
    /\ ticker = "ticker"
    /\ tickerStopChan = "chan"
    /\ timerRunning = TRUE
    /\ tickerC = 0
    /\ stopChanClosed = FALSE
    /\ wpc = "select"
    /\ wi = 1
    /\ wcount = Zero

MeterInit ==
    /\ NewMeter
    /\ pc = [t \in Callers |-> "idle"]
    /\ idx = [t \in Callers |-> 1]
    /\ delta = [t \in Callers |-> 0]
    /\ tmp = [t \in Callers |-> Zero]
    /\ panicked = FALSE
    /\ events = 0
    /\ stopReturned = FALSE
    /\ completedSum = 0
    /\ consumed = [e \in EwmaNames |-> Zero]
    /\ tickLog = <<>>

\* the runtime timer sends on ticker.C; a firing into the full buffer is dropped
TimerFire ==
    /\ ~panicked
    /\ timerRunning
    /\ events < MaxEvents
    /\ tickerC = 0
    /\ tickerC' = 1
    /\ events' = events + 1
    /\ UNCHANGED <<ewmaVars, histVars, reporterVars, tickLog, ewmas, count, startTime, ticker, tickerStopChan, timerRunning,
                   stopChanClosed, wpc, wi, wcount, pc, idx, delta, tmp,
                   panicked, stopReturned, completedSum, consumed>>

\* select: case <-m.tickerStopChan (a closed channel is always ready)
WatcherStopCase ==
    /\ ~panicked
    /\ wpc = "select"
    /\ stopChanClosed
    /\ wpc' = "clearTicker"
    /\ UNCHANGED <<ewmaVars, histVars, reporterVars, tickLog, ewmas, count, startTime, ticker, tickerStopChan, timerRunning,
                   tickerC, stopChanClosed, wi, wcount, pc, idx, delta, tmp,
                   panicked, events, stopReturned, completedSum,
                   consumed>>

\* select: case <-m.ticker.C, entering m.tick()
WatcherTickCase ==
    /\ ~panicked
    /\ wpc = "select"
    /\ tickerC = 1
    /\ tickerC' = 0
    /\ wpc' = "load"
    /\ wi' = 1
    /\ tickLog' = <<>>
    /\ UNCHANGED <<ewmaVars, histVars, reporterVars, ewmas, count, startTime, ticker, tickerStopChan, timerRunning,
                   stopChanClosed, wcount, pc, idx, delta, tmp,
                   panicked, events, stopReturned, completedSum,
                   consumed>>

\* EWMA.Tick: count := self.uncounted
WatcherTickLoad ==
    /\ ~panicked
    /\ wpc = "load"
    /\ wcount' = ewmas[EwmaOrder[wi]].uncounted
    /\ wpc' = "store"
    /\ tickLog' = Append(tickLog, <<"begin", EwmaOrder[wi]>>)
    /\ UNCHANGED <<ewmaVars, histVars, reporterVars, ewmas, count, startTime, ticker, tickerStopChan, timerRunning,
                   tickerC, stopChanClosed, wi, pc, idx, delta, tmp,
                   panicked, events, stopReturned, completedSum,
                   consumed>>

\* EWMA.Tick: self.uncounted = 0 and the new rate; then the next EWMA of tick()
WatcherTickStore ==
    /\ ~panicked
    /\ wpc = "store"
    /\ LET e == EwmaOrder[wi]
       IN  /\ ewmas' = [ewmas EXCEPT ![e].uncounted = Zero,
                                     ![e].rate = TickRate(ewmas[e], wcount)]
           /\ consumed' = [consumed EXCEPT ![e] = FAdd(@, wcount)]
           /\ tickLog' = Append(tickLog, <<"end", e>>)
    /\ wcount' = Zero
    /\ IF wi < Len(EwmaOrder)
       THEN wpc' = "load" /\ wi' = wi + 1
       ELSE wpc' = "select" /\ wi' = 1
    /\ UNCHANGED <<ewmaVars, histVars, reporterVars, count, startTime, ticker, tickerStopChan, timerRunning,
                   tickerC, stopChanClosed, pc, idx, delta, tmp,
                   panicked, events, stopReturned, completedSum>>

\* after the loop: m.ticker = nil
WatcherClearTicker ==
    /\ ~panicked
    /\ wpc = "clearTicker"
    /\ ticker' = "nil"
    /\ wpc' = "clearChan"
    /\ UNCHANGED <<ewmaVars, histVars, reporterVars, tickLog, ewmas, count, startTime, tickerStopChan, timerRunning,
                   tickerC, stopChanClosed, wi, wcount, pc, idx, delta, tmp,
                   panicked, events, stopReturned, completedSum,
                   consumed>>

\* after the loop: m.tickerStopChan = nil
WatcherClearChan ==
    /\ ~panicked
    /\ wpc = "clearChan"
    /\ tickerStopChan' = "nil"
    /\ wpc' = "done"
    /\ UNCHANGED <<ewmaVars, histVars, reporterVars, tickLog, ewmas, count, startTime, ticker, timerRunning,
                   tickerC, stopChanClosed, wi, wcount, pc, idx, delta, tmp,
                   panicked, events, stopReturned, completedSum,
                   consumed>>

tickWatcher ==
    \/ WatcherStopCase
    \/ WatcherTickCase
    \/ WatcherTickLoad
    \/ WatcherTickStore
    \/ WatcherClearTicker
    \/ WatcherClearChan

\* a call starts on an idle goroutine; which one is immaterial, so the lowest
CanCall(t) ==
    /\ pc[t] = "idle"
    /\ \A u \in Callers : pc[u] = "idle" => t <= u
    /\ events < MaxEvents

\* AtomicAddUint64 with a fault: the delta is stored, not added
AtomicAddUint64_Stores(c, d) == d

\* atomic.AddUint64(&m.count, delta); the model's totals stay far below 2^64
AtomicAddUint64(c, d) == c + d

\* Meter.Update begins: the atomic add
UpdateAdd(t, d) ==
    /\ ~panicked
    /\ CanCall(t)
    /\ events' = events + 1
    /\ count' = AtomicAddUint64(count, d)
    /\ delta' = [delta EXCEPT ![t] = d]
    /\ pc' = [pc EXCEPT ![t] = "load"]
    /\ idx' = [idx EXCEPT ![t] = 1]
    /\ UNCHANGED <<ewmaVars, histVars, reporterVars, tickLog, ewmas, startTime, ticker, tickerStopChan, timerRunning,
                   tickerC, stopChanClosed, wpc, wi, wcount, tmp,
                   panicked, stopReturned, completedSum,
                   consumed>>

\* EWMA.Update: the read of self.uncounted in self.uncounted += value
UpdateLoad(t) ==
    /\ ~panicked
    /\ pc[t] = "load"
    /\ tmp' = [tmp EXCEPT ![t] = ewmas[EwmaOrder[idx[t]]].uncounted]
    /\ pc' = [pc EXCEPT ![t] = "store"]
    /\ UNCHANGED <<ewmaVars, histVars, reporterVars, tickLog, ewmas, count, startTime, ticker, tickerStopChan, timerRunning,
                   tickerC, stopChanClosed, wpc, wi, wcount, idx, delta,
                   panicked, events, stopReturned, completedSum,
                   consumed>>

\* EWMA.Update: the write of self.uncounted; then the next EWMA, or the return
UpdateStore(t) ==
    /\ ~panicked
    /\ pc[t] = "store"
    /\ LET e == EwmaOrder[idx[t]]
       IN  ewmas' = [ewmas EXCEPT ![e].uncounted = FAdd(tmp[t], FromInt(delta[t]))]
    /\ tmp' = [tmp EXCEPT ![t] = Zero]
    /\ IF idx[t] < Len(EwmaOrder)
       THEN /\ pc' = [pc EXCEPT ![t] = "load"]
            /\ idx' = [idx EXCEPT ![t] = idx[t] + 1]
            /\ UNCHANGED <<ewmaVars, histVars, reporterVars, tickLog, delta, completedSum>>
       ELSE /\ pc' = [pc EXCEPT ![t] = "idle"]
            /\ idx' = [idx EXCEPT ![t] = 1]
            /\ delta' = [delta EXCEPT ![t] = 0]
            /\ completedSum' = completedSum + delta[t]
    /\ UNCHANGED <<ewmaVars, histVars, reporterVars, tickLog, count, startTime, ticker, tickerStopChan, timerRunning,
                   tickerC, stopChanClosed, wpc, wi, wcount,
                   panicked, events, stopReturned, consumed>>

\* Meter.Stop: if m.ticker != nil
StopCheck(t) ==
    /\ ~panicked
    /\ CanCall(t)
    /\ events' = events + 1
    /\ IF ticker # "nil"
       THEN pc' = [pc EXCEPT ![t] = "stopTicker"] /\ UNCHANGED stopReturned
       ELSE stopReturned' = TRUE /\ UNCHANGED pc
    /\ UNCHANGED <<ewmaVars, histVars, reporterVars, tickLog, ewmas, count, startTime, ticker, tickerStopChan, timerRunning,
                   tickerC, stopChanClosed, wpc, wi, wcount, idx, delta, tmp,
                   panicked, completedSum, consumed>>

\* Meter.Stop: m.ticker.Stop(); a nil m.ticker is a nil pointer dereference
StopTicker(t) ==
    /\ ~panicked
    /\ pc[t] = "stopTicker"
    /\ IF ticker = "nil"
       THEN panicked' = TRUE /\ UNCHANGED <<timerRunning, pc>>
       ELSE /\ timerRunning' = FALSE
            /\ pc' = [pc EXCEPT ![t] = "stopClose"]
            /\ UNCHANGED panicked
    /\ UNCHANGED <<ewmaVars, histVars, reporterVars, tickLog, ewmas, count, startTime, ticker, tickerStopChan,
                   tickerC, stopChanClosed, wpc, wi, wcount, idx, delta, tmp,
                   events, stopReturned, completedSum, consumed>>

\* Meter.Stop: close(m.tickerStopChan); closing a nil or a closed channel panics
StopClose(t) ==
    /\ ~panicked
    /\ pc[t] = "stopClose"
    /\ IF tickerStopChan = "nil" \/ stopChanClosed
       THEN panicked' = TRUE /\ UNCHANGED <<stopChanClosed, pc, stopReturned>>
       ELSE /\ stopChanClosed' = TRUE
            /\ pc' = [pc EXCEPT ![t] = "idle"]
            /\ stopReturned' = TRUE
            /\ UNCHANGED panicked
    /\ UNCHANGED <<ewmaVars, histVars, reporterVars, tickLog, ewmas, count, startTime, ticker, tickerStopChan, timerRunning,
                   tickerC, wpc, wi, wcount, idx, delta, tmp,
                   events, completedSum, consumed>>

MeterUpdate(t) ==
    \/ \E d \in Deltas : UpdateAdd(t, d)
    \/ UpdateLoad(t)
    \/ UpdateStore(t)

MeterStop(t) ==
    \/ StopCheck(t)
    \/ StopTicker(t)
    \/ StopClose(t)

MeterCount == count

\* float64(count) / tdelta.Seconds() when time.Now() returns now; the unit of
\* time is the clock's minute
MeanRate(now) ==
    LET tdelta == TimeSub(now, startTime)
    IN  FDiv(FromInt(MeterCount), FromInt(tdelta))

OneMinuteRate == EWMARate(ewmas.m1Rate)

FiveMinuteRate == EWMARate(ewmas.m5Rate)

FifteenMinuteRate == EWMARate(ewmas.m15Rate)

MeterNext ==
    \/ TimerFire
    \/ tickWatcher
    \/ \E t \in Callers : MeterUpdate(t)
    \/ \E t \in Callers : MeterStop(t)


(***************************************************************************)
(* SpecEWMA: one EWMA, called from a single goroutine                      *)
(***************************************************************************)
\* tick intervals (seconds) and smoothing constants NewEWMA is given
EwmaIntervals == {1, TickInterval}

EwmaAlphas == {<<1, 2>>, M1_ALPHA}

EwmaValues == {FromInt(i) : i \in 0..MaxEwmaValue}

\* the caller is not in a constant feed
NoFeed == [on |-> FALSE, v |-> Zero, rate0 |-> Zero, k |-> 0, next |-> "Update"]

EwmaInit ==
    /\ ewma \in {NewEWMA(i, a) : i \in EwmaIntervals, a \in EwmaAlphas}
    /\ ewTicks = 0
    /\ ewUpdates = 0
    /\ feed = NoFeed
    /\ instantRates = {}

\* the EWMA while another specification runs
EwmaParked ==
    /\ ewma = NewEWMA(TickInterval, M1_ALPHA)
    /\ ewTicks = 0
    /\ ewUpdates = 0
    /\ feed = NoFeed
    /\ instantRates = {}

\* the caller starts a constant feed at a tick boundary: from now on it
\* calls Update(v) once and then Tick(), again and again
StartFeed(v) ==
    /\ ~feed.on
    /\ ewma.uncounted = Zero
    /\ feed' = [on |-> TRUE, v |-> v, rate0 |-> EWMARate(ewma), k |-> 0,
                next |-> "Update"]
    /\ UNCHANGED <<ewma, ewTicks, ewUpdates, instantRates, meterVars, histVars, reporterVars>>

EwmaUpdateCall(value) ==
    /\ ewUpdates < MaxEwmaUpdates
    /\ feed.on => feed.next = "Update" /\ value = feed.v
    /\ ewma' = EWMAUpdate(ewma, value)
    /\ ewUpdates' = ewUpdates + 1
    /\ feed' = IF feed.on THEN [feed EXCEPT !.next = "Tick"] ELSE feed
    /\ UNCHANGED <<ewTicks, instantRates, meterVars, histVars, reporterVars>>

EwmaTickCall ==
    /\ ewTicks < MaxEwmaTicks
    /\ feed.on => feed.next = "Tick"
    /\ ewma' = EWMATick(ewma)
    /\ ewTicks' = ewTicks + 1
    /\ instantRates' = instantRates \cup {InstantRate(ewma, ewma.uncounted)}
    /\ feed' = IF feed.on
               THEN [feed EXCEPT !.next = "Update", !.k = feed.k + 1]
               ELSE feed
    /\ UNCHANGED <<ewUpdates, meterVars, histVars, reporterVars>>

EwmaNext ==
    \/ \E value \in EwmaValues : EwmaUpdateCall(value)
    \/ EwmaTickCall
    \/ \E v \in EwmaValues : StartFeed(v)

(***************************************************************************)
(* Sample: the uniform reservoir (Algorithm R) behind NewUnbiasedHistogram *)
(***************************************************************************)
NewUniformSample(reservoirSize) ==
    [values |-> <<>>, count |-> 0, reservoirSize |-> reservoirSize]

SampleClear(smp) == [smp EXCEPT !.values = <<>>, !.count = 0]

SampleLen(smp) == Len(smp.values)

SampleValues(smp) == smp.values

\* the random integers Update may draw for the next item: [0, i) once full
SampleDraws(smp) ==
    IF Len(smp.values) < smp.reservoirSize THEN {0} ELSE 0..smp.count

\* the i-th item is inserted while i <= N, and then overwrites slot r if r < N
SampleUpdate(smp, value, r) ==
    [smp EXCEPT
        !.count = smp.count + 1,
        !.values = IF Len(smp.values) < smp.reservoirSize
                   THEN Append(smp.values, value)
                   ELSE IF r < smp.reservoirSize
                        THEN [smp.values EXCEPT ![r + 1] = value]
                        ELSE smp.values]

(***************************************************************************)
(* Histogram                                                               *)
(***************************************************************************)
\* math.Sqrt: exact for a square of a rational, else the term <<n, d, 2>>
IsSquare(n) == \E k \in 0..n : k * k = n

Root(n) == CHOOSE k \in 0..n : k * k = n

Sqrt(a) ==
    IF IsNaN(a) THEN NaN
    ELSE IF ~IsFinite(a) THEN (IF a[1] > 0 THEN a ELSE NaN)
    ELSE IF a[1] < 0 THEN NaN
    ELSE IF IsSquare(a[1]) /\ IsSquare(a[2]) THEN <<Root(a[1]), Root(a[2])>>
    ELSE <<a[1], a[2], 2>>

\* math.Floor, and the conversion int(x) (towards zero), of a finite value
Floor(a) == FromInt(a[1] \div a[2])

Trunc(a) == Sgn(a[1]) * (Abs(a[1]) \div a[2])

\* sort.Sort(sort.Float64Slice(values))
RECURSIVE SortFloats(_)
SortFloats(s) ==
    IF Len(s) <= 1 THEN s
    ELSE LET rest == SortFloats(Tail(s))
             x == Head(s)
             k == Cardinality({i \in 1..Len(rest) : FLess(rest[i], x)})
         IN  SubSeq(rest, 1, k) \o <<x>> \o SubSeq(rest, k + 1, Len(rest))

NewHistogram ==
    [min |-> Zero, max |-> Zero, sum |-> Zero, count |-> 0,
     varianceM |-> Zero, varianceS |-> Zero]

\* HistClear with a fault: the sum is not reset
HistClear_KeepsSum(self) ==
    [self EXCEPT !.min = Zero, !.max = Zero, !.count = 0,
                 !.varianceM = Zero, !.varianceS = Zero]

HistClear(self) ==
    [self EXCEPT !.min = Zero, !.max = Zero, !.sum = Zero, !.count = 0,
                 !.varianceM = Zero, !.varianceS = Zero]

\* HistUpdate with a fault: the first observation does not set max
HistUpdate_FirstKeepsMax(self, value) ==
    LET cnt == self.count + 1
        sum == FAdd(self.sum, value)
    IN  IF cnt = 1
        THEN [self EXCEPT !.count = cnt, !.sum = sum, !.min = value,
                          !.varianceM = value]
        ELSE LET old_m == self.varianceM
                 new_m == FAdd(old_m, FDiv(FSub(value, old_m), FromInt(cnt)))
             IN  [self EXCEPT
                    !.count = cnt,
                    !.sum = sum,
                    !.min = IF FLess(value, self.min) THEN value ELSE self.min,
                    !.max = IF FLess(self.max, value) THEN value ELSE self.max,
                    !.varianceM = new_m,
                    !.varianceS = FAdd(self.varianceS,
                                       FMul(FSub(value, old_m), FSub(value, new_m)))]

\* Histogram.Update, the Histogram's own fields
HistUpdate(self, value) ==
    LET cnt == self.count + 1
        sum == FAdd(self.sum, value)
    IN  IF cnt = 1
        THEN [self EXCEPT !.count = cnt, !.sum = sum, !.min = value,
                          !.max = value, !.varianceM = value]
        ELSE LET old_m == self.varianceM
                 new_m == FAdd(old_m, FDiv(FSub(value, old_m), FromInt(cnt)))
             IN  [self EXCEPT
                    !.count = cnt,
                    !.sum = sum,
                    !.min = IF FLess(value, self.min) THEN value ELSE self.min,
                    !.max = IF FLess(self.max, value) THEN value ELSE self.max,
                    !.varianceM = new_m,
                    !.varianceS = FAdd(self.varianceS,
                                       FMul(FSub(value, old_m), FSub(value, new_m)))]

HistCount(self) == self.count

HistSum(self) == self.sum

\* HistMin with a fault: no test for the empty Histogram
HistMin_NoEmptyTest(self) == self.min

HistMin(self) == IF self.count = 0 THEN NaN ELSE self.min

HistMax(self) == IF self.count = 0 THEN NaN ELSE self.max

HistMean(self) ==
    IF self.count > 0 THEN FDiv(self.sum, FromInt(self.count)) ELSE Zero

HistStdDev(self) ==
    IF self.count > 0
    THEN Sqrt(FDiv(self.varianceS, FromInt(self.count - 1)))
    ELSE Zero

\* HistVariance with a fault: the divisor is count, not count - 1
HistVariance_OverCount(self) ==
    IF self.count <= 1 THEN Zero
    ELSE FDiv(self.varianceS, FromInt(self.count))

HistVariance(self) ==
    IF self.count <= 1 THEN Zero
    ELSE FDiv(self.varianceS, FromInt(self.count - 1))

\* PercentileScore with a fault: pos is p * n, not p * (n + 1)
PercentileScore_PosOverN(values, p) ==
    LET pos == FMul(p, FromInt(Len(values)))
        ipos == Trunc(pos)
    IN  IF ipos < 1 THEN values[1]
        ELSE IF ipos >= Len(values) THEN values[Len(values)]
        ELSE LET lower == values[ipos]
                 upper == values[ipos + 1]
             IN  FAdd(lower, FMul(FSub(pos, Floor(pos)), FSub(upper, lower)))

\* one score of Percentiles, from the sorted snapshot
PercentileScore(values, p) ==
    LET pos == FMul(p, FromInt(Len(values) + 1))
        ipos == Trunc(pos)
    IN  IF ipos < 1 THEN values[1]
        ELSE IF ipos >= Len(values) THEN values[Len(values)]
        ELSE LET lower == values[ipos]
                 upper == values[ipos + 1]
             IN  FAdd(lower, FMul(FSub(pos, Floor(pos)), FSub(upper, lower)))

\* HistPercentiles with a fault: the snapshot is not sorted
HistPercentiles_NoSort(self, smp, percentiles) ==
    IF self.count = 0
    THEN [i \in 1..Len(percentiles) |-> Zero]
    ELSE LET values == SampleValues(smp)
         IN  [i \in 1..Len(percentiles) |-> PercentileScore(values, percentiles[i])]

HistPercentiles(self, smp, percentiles) ==
    IF self.count = 0
    THEN [i \in 1..Len(percentiles) |-> Zero]
    ELSE LET values == SortFloats(SampleValues(smp))
         IN  [i \in 1..Len(percentiles) |-> PercentileScore(values, percentiles[i])]

HistValues(smp) == SampleValues(smp)

(***************************************************************************)
(* SpecHist: one Histogram, called from a single goroutine                 *)
(***************************************************************************)
\* the finite observations passed to Update
Observations == {FromInt(i) : i \in (-1)..MaxHistValue}

\* the percentile lists passed to Percentiles
PercentileArgs ==
    {<<>>, << <<1, 2>> >>, << <<0, 1>>, <<1, 1>> >>,
     << <<1, 2>>, <<3, 4>>, <<99, 100>> >>}

HistInit ==
    /\ hist = NewHistogram
    /\ sample = NewUniformSample(ReservoirSize)
    /\ cleared = FALSE
    /\ observed = <<>>
    /\ histOps = 0

\* HistogramUpdate with a fault: the value is not forwarded to the sample
HistogramUpdate_NoForward(value, r) ==
    /\ histOps < MaxHistOps
    /\ histOps' = histOps + 1
    /\ hist' = HistUpdate(hist, value)
    /\ observed' = Append(observed, <<value, r>>)
    /\ UNCHANGED <<sample, cleared, meterVars, ewmaVars, reporterVars>>

HistogramUpdate(value, r) ==
    /\ histOps < MaxHistOps
    /\ histOps' = histOps + 1
    /\ hist' = HistUpdate(hist, value)
    /\ sample' = SampleUpdate(sample, value, r)
    /\ observed' = Append(observed, <<value, r>>)
    /\ UNCHANGED <<cleared, meterVars, ewmaVars, reporterVars>>

HistogramClear ==
    /\ histOps < MaxHistOps
    /\ histOps' = histOps + 1
    /\ sample' = SampleClear(sample)
    /\ hist' = HistClear(hist)
    /\ observed' = <<>>
    /\ cleared' = TRUE
    /\ UNCHANGED <<meterVars, ewmaVars, reporterVars>>

HistNext ==
    \/ \E value \in Observations : \E r \in SampleDraws(sample) :
          HistogramUpdate(value, r)
    \/ HistogramClear

(***************************************************************************)
(* SpecSeries: an unbiased Histogram fed 1, 2, ..., SeriesLen in order     *)
(***************************************************************************)
\* NewUnbiasedHistogram: a new Histogram over a uniform sample of 1028 values
NewUnbiasedHistogram == [hist |-> NewHistogram, sample |-> NewUniformSample(1028)]

SeriesInit ==
    /\ hist = NewUnbiasedHistogram.hist
    /\ sample = NewUnbiasedHistogram.sample
    /\ cleared = FALSE
    /\ observed = <<>>
    /\ histOps = 0

\* Update(histOps + 1): the next value of the series
SeriesUpdate ==
    /\ histOps < SeriesLen
    /\ histOps' = histOps + 1
    /\ \E r \in SampleDraws(sample) :
          LET value == FromInt(histOps + 1)
          IN  /\ hist' = HistUpdate(hist, value)
              /\ sample' = SampleUpdate(sample, value, r)
              /\ observed' = Append(observed, <<value, r>>)
    /\ UNCHANGED <<cleared, meterVars, ewmaVars, reporterVars>>

SeriesNext == SeriesUpdate

(***************************************************************************)
(* SpecReporter: a StatHatReporter, Start and Stop called from one         *)
(* goroutine; the n-th Start that finds r.ticker nil makes ticker n and    *)
(* channel n and starts goroutine n                                        *)
(***************************************************************************)
NewStatHatReporter ==
    /\ rTicker = 0
    /\ rCloseChan = 0
    /\ rTickers = <<>>
    /\ rChans = <<>>
    /\ rGos = <<>>

ReporterInit ==
    /\ NewStatHatReporter
    /\ rEvents = 0
    /\ rPanicked = FALSE

\* Start(): a new ticker, a new close channel and a new goroutine, unless
\* r.ticker is set
ReporterStart ==
    /\ ~rPanicked
    /\ rEvents < MaxReporterEvents
    /\ rEvents' = rEvents + 1
    /\ IF rTicker = 0
       THEN LET n == Len(rGos) + 1
            IN  /\ rTickers' = Append(rTickers, [running |-> TRUE, C |-> 0])
                /\ rChans' = Append(rChans, FALSE)
                /\ rTicker' = n
                /\ rCloseChan' = n
                /\ rGos' = Append(rGos, [pc |-> "for", ch |-> n, closeChan |-> 0])
       ELSE UNCHANGED <<rTicker, rCloseChan, rTickers, rChans, rGos>>
    /\ UNCHANGED <<rPanicked, meterVars, ewmaVars, histVars>>

\* Stop(): r.ticker.Stop(); close(r.closeChan); r.ticker = nil, if r.ticker
\* is set
ReporterStop ==
    /\ ~rPanicked
    /\ rEvents < MaxReporterEvents
    /\ rEvents' = rEvents + 1
    /\ IF rTicker # 0
       THEN /\ rTickers' = [rTickers EXCEPT ![rTicker].running = FALSE]
            /\ IF rCloseChan = 0 \/ rChans[rCloseChan]
               THEN rPanicked' = TRUE /\ UNCHANGED rChans
               ELSE rChans' = [rChans EXCEPT ![rCloseChan] = TRUE] /\ UNCHANGED rPanicked
            /\ rTicker' = 0
       ELSE UNCHANGED <<rTicker, rTickers, rChans, rPanicked>>
    /\ UNCHANGED <<rCloseChan, rGos, meterVars, ewmaVars, histVars>>

\* the runtime timer of ticker t sends on its C; a firing into the full
\* buffer is dropped
ReporterTimerFire(t) ==
    /\ ~rPanicked
    /\ rEvents < MaxReporterEvents
    /\ rTickers[t].running
    /\ rTickers[t].C = 0
    /\ rTickers' = [rTickers EXCEPT ![t].C = 1]
    /\ rEvents' = rEvents + 1
    /\ UNCHANGED <<rTicker, rCloseChan, rChans, rGos, rPanicked,
                   meterVars, ewmaVars, histVars>>

\* goroutine g enters the select: the channel operands are evaluated, ch from
\* the captured local and r.closeChan from the reporter's field
GoSelect(g) ==
    /\ ~rPanicked
    /\ rGos[g].pc = "for"
    /\ rGos' = [rGos EXCEPT ![g].pc = "select", ![g].closeChan = rCloseChan]
    /\ UNCHANGED <<rTicker, rCloseChan, rTickers, rChans, rEvents, rPanicked,
                   meterVars, ewmaVars, histVars>>

\* select: case <-ch
GoTickCase(g) ==
    /\ ~rPanicked
    /\ rGos[g].pc = "select"
    /\ rTickers[rGos[g].ch].C = 1
    /\ rTickers' = [rTickers EXCEPT ![rGos[g].ch].C = 0]
    /\ rGos' = [rGos EXCEPT ![g].pc = "report"]
    /\ UNCHANGED <<rTicker, rCloseChan, rChans, rEvents, rPanicked,
                   meterVars, ewmaVars, histVars>>

\* select: case <-r.closeChan: return (a closed channel is always ready, a
\* nil channel never)
GoCloseCase(g) ==
    /\ ~rPanicked
    /\ rGos[g].pc = "select"
    /\ rGos[g].closeChan # 0
    /\ rChans[rGos[g].closeChan]
    /\ rGos' = [rGos EXCEPT ![g].pc = "done"]
    /\ UNCHANGED <<rTicker, rCloseChan, rTickers, rChans, rEvents, rPanicked,
                   meterVars, ewmaVars, histVars>>

\* the report pass, r.registry.Do(...), and back to the head of the loop
GoReport(g) ==
    /\ ~rPanicked
    /\ rGos[g].pc = "report"
    /\ rGos' = [rGos EXCEPT ![g].pc = "for"]
    /\ UNCHANGED <<rTicker, rCloseChan, rTickers, rChans, rEvents, rPanicked,
                   meterVars, ewmaVars, histVars>>

\* one step of the goroutine Start launched
GoStep(g) == GoSelect(g) \/ GoTickCase(g) \/ GoCloseCase(g) \/ GoReport(g)

ReporterNext ==
    \/ ReporterStart
    \/ ReporterStop
    \/ \E t \in 1..Len(rTickers) : ReporterTimerFire(t)
    \/ \E g \in 1..Len(rGos) : GoSelect(g)
    \/ \E g \in 1..Len(rGos) : GoTickCase(g)
    \/ \E g \in 1..Len(rGos) : GoCloseCase(g)
    \/ \E g \in 1..Len(rGos) : GoReport(g)

(***************************************************************************)
(* The specifications                                                      *)
(***************************************************************************)
\* each specification runs one component; the other two stay as constructed
InitMeter == MeterInit /\ EwmaParked /\ HistInit /\ ReporterInit

InitEWMA == MeterInit /\ EwmaInit /\ HistInit /\ ReporterInit

InitHist == MeterInit /\ EwmaParked /\ HistInit /\ ReporterInit

InitSeries == MeterInit /\ EwmaParked /\ SeriesInit /\ ReporterInit

InitReporter == MeterInit /\ EwmaParked /\ HistInit /\ ReporterInit

SpecMeter == InitMeter /\ [][MeterNext]_vars

SpecEWMA == InitEWMA /\ [][EwmaNext]_vars

SpecHist == InitHist /\ [][HistNext]_vars

SpecSeries == InitSeries /\ [][SeriesNext]_vars

SpecReporter == InitReporter /\ [][ReporterNext]_vars

(***************************************************************************)
(* Meter: the claims                                                       *)
(***************************************************************************)
\* C1: no Stop() call ever panics, however Stop() calls interleave with each
\* other and with the tick watcher: no close of a closed or nil channel, no
\* use of a nil ticker.
C1_StopNeverPanics == ~panicked

\* C2: once a Stop() call has returned, no Tick changes the one-, five- or
\* fifteen-minute rate any more.
C2_NoRateChangeAfterStop ==
    [][stopReturned =>
         /\ OneMinuteRate' = OneMinuteRate
         /\ FiveMinuteRate' = FiveMinuteRate
         /\ FifteenMinuteRate' = FifteenMinuteRate]_vars

\* the values passed to the finished Update calls of EWMA e: those of the
\* Meter.Update calls that returned, and of those in flight already past e
PassedTo(e) ==
    LET k == CHOOSE i \in 1..Len(EwmaOrder) : EwmaOrder[i] = e
        past == {t \in Callers : pc[t] \in {"load", "store"} /\ idx[t] > k}
        RECURSIVE Sum(_)
        Sum(S) == IF S = {} THEN 0
                  ELSE LET t == CHOOSE u \in S : TRUE
                       IN  delta[t] + Sum(S \ {t})
    IN  FromInt(completedSum + Sum(past))

\* no Update and no Tick is in the middle of its access to EWMA e
Quiet(e) ==
    /\ \A t \in Callers : ~(pc[t] = "store" /\ EwmaOrder[idx[t]] = e)
    /\ ~(wpc = "store" /\ EwmaOrder[wi] = e)

\* C3: no update of an EWMA accumulator is lost or counted twice: whenever no
\* access to it is in progress, what its Ticks consumed plus what it still
\* holds is the sum of the values passed to its Updates.
C3_NoLostUpdate ==
    \A e \in EwmaNames :
        Quiet(e) => FAdd(consumed[e], ewmas[e].uncounted) = PassedTo(e)

\* the deltas of the Update calls whose atomic add has run but which have not
\* returned yet
InFlightSum ==
    LET busy == {t \in Callers : pc[t] \in {"load", "store"}}
        RECURSIVE Sum(_)
        Sum(S) == IF S = {} THEN 0
                  ELSE LET t == CHOOSE u \in S : TRUE
                       IN  delta[t] + Sum(S \ {t})
    IN  Sum(busy)

\* C4: Count() is the sum of the deltas of the Update calls that have
\* returned plus those of the calls in flight (whose add has taken effect),
\* so it is exactly the sum of the returned calls' deltas whenever no Update
\* is in flight; and Count() never decreases.
C4_CountIsSumOfDeltas ==
    /\ [](MeterCount = completedSum + InFlightSum)
    /\ [][MeterCount' >= MeterCount]_vars

\* C4 witness: two Update calls overlapped with a tick, and one has returned
\* while the other is still in flight, after Stop
C4_Witness ==
    /\ completedSum > 0
    /\ InFlightSum > 0
    /\ stopReturned

\* C6: MeanRate() is Count() divided by the time elapsed since NewMeter ran.
C6_MeanRateSinceConstruction ==
    \A el \in 1..MaxElapsed :
        MeanRate(NewMeterTime + el) = FDiv(FromInt(MeterCount), FromInt(el))

(***************************************************************************)
(* EWMA: the claims                                                        *)
(***************************************************************************)
\* C5: only the first Tick of an EWMA sets rate to the instant rate; every
\* later Tick sets it to rate + alpha * (instantRate - rate), whatever the
\* rate is.
C5_OnlyFirstTickAssigns ==
    [][ewTicks' = ewTicks + 1 =>
         LET instantRate == InstantRate(ewma, ewma.uncounted)
         IN  EWMARate(ewma') =
               IF ewTicks = 0
               THEN instantRate
               ELSE FAdd(ewma.rate,
                         FMul(ewma.alpha, FSub(instantRate, ewma.rate)))]_vars

\* C13: Update changes the accumulator only: across an Update call Rate(),
\* interval and alpha are what they were, so Rate() is the same before and
\* after any number of Updates with no Tick between; Rate() is 0 while Tick
\* has never been called, however many Updates were made.
C13_UpdateLeavesRate ==
    /\ [][ewUpdates' = ewUpdates + 1 =>
            /\ EWMARate(ewma') = EWMARate(ewma)
            /\ ewma'.interval = ewma.interval
            /\ ewma'.alpha = ewma.alpha]_vars
    /\ [](ewTicks = 0 => EWMARate(ewma) = Zero)

\* C13 witness: several Updates of a positive total and no Tick yet
C13_Witness ==
    /\ ewTicks = 0
    /\ ewUpdates >= 2
    /\ FLess(Zero, ewma.uncounted)

FAbs(a) == <<Abs(a[1]), a[2]>>

FLeq(a, b) == ~FLess(b, a)

RECURSIVE FPow(_, _)
FPow(a, k) == IF k = 0 THEN One ELSE FMul(a, FPow(a, k - 1))

\* a / b <= c / d for naturals a, c and positive b, d, by integer parts
\* (no product of the four is formed)
RECURSIVE RatLeq(_, _, _, _)
RatLeq(a, b, c, d) ==
    IF a \div b # c \div d THEN a \div b < c \div d
    ELSE IF a % b = 0 THEN TRUE
    ELSE IF c % d = 0 THEN FALSE
    ELSE RatLeq(d, c % d, b, a % b)

\* C14: in a constant feed of v per tick interval, after k rounds of
\* Update(v) then Tick() the error |rate_k - v / interval| is at most
\* |rate_0 - v / interval| * (1 - alpha)^k.
C14_ConstantFeedConverges ==
    (feed.on /\ feed.next = "Update") =>
        LET target == FDiv(feed.v, FromInt(ewma.interval))
            err == FAbs(FSub(EWMARate(ewma), target))
            err0 == FAbs(FSub(feed.rate0, target))
            bound == FMul(err0, FPow(FSub(One, ewma.alpha), feed.k))
        IN  RatLeq(err[1], err[2], bound[1], bound[2])

\* C14 witness: two rounds of a feed that started from a rate other than 0
\* and other than the target, and has not reached the target
C14_Witness ==
    /\ feed.on
    /\ feed.k >= 2
    /\ feed.next = "Update"
    /\ feed.rate0 # Zero
    /\ EWMARate(ewma) # FDiv(feed.v, FromInt(ewma.interval))

\* C20: once Tick was called, Rate() is at least the smallest and at most the
\* largest instant rate any Tick has computed so far, and so never negative.
C20_RateWithinInstantRates ==
    ewTicks >= 1 =>
        /\ \E lo \in instantRates : FLeq(lo, EWMARate(ewma))
        /\ \E hi \in instantRates : FLeq(EWMARate(ewma), hi)
        /\ FLeq(Zero, EWMARate(ewma))

\* C20 witness: Ticks with different instant rates, and a rate strictly
\* between the smallest and the largest of them
C20_Witness ==
    /\ ewTicks >= 2
    /\ \E lo \in instantRates : FLess(lo, EWMARate(ewma))
    /\ \E hi \in instantRates : FLess(EWMARate(ewma), hi)

(***************************************************************************)
(* Histogram: the claims                                                   *)
(***************************************************************************)
\* C7: StdDev() is sqrt(Variance()) in every state, and is 0 whenever
\* count <= 1.
C7_StdDevIsSqrtOfVariance ==
    /\ HistStdDev(hist) = Sqrt(HistVariance(hist))
    /\ hist.count <= 1 => HistStdDev(hist) = Zero

\* what every accessor of a Histogram returns
Accessors(self, smp) ==
    [Count |-> HistCount(self),
     Sum |-> HistSum(self),
     Min |-> HistMin(self),
     Max |-> HistMax(self),
     Mean |-> HistMean(self),
     Variance |-> HistVariance(self),
     StdDev |-> HistStdDev(self),
     Percentiles |-> [ps \in PercentileArgs |-> HistPercentiles(self, smp, ps)],
     Values |-> HistValues(smp)]

\* a Histogram made by NewHistogram over a new sample, after the Updates obs
RECURSIVE Replay(_)
Replay(obs) ==
    IF obs = <<>>
    THEN [h |-> NewHistogram, s |-> NewUniformSample(ReservoirSize)]
    ELSE LET prev == Replay(SubSeq(obs, 1, Len(obs) - 1))
             o == obs[Len(obs)]
         IN  [h |-> HistUpdate(prev.h, o[1]), s |-> SampleUpdate(prev.s, o[1], o[2])]

\* C8: after Clear(), and after any Updates that follow it, every accessor
\* returns what it returns on a Histogram newly made by NewHistogram and given
\* the same Updates (with the same random draws of the reservoir).
C8_ClearIsLikeNew ==
    cleared =>
        Accessors(hist, sample) = Accessors(Replay(observed).h, Replay(observed).s)

\* C8 witness: Updates, then Clear, then enough Updates to make the reservoir
\* evict
C8_Witness ==
    /\ cleared
    /\ Len(observed) > ReservoirSize
    /\ histOps > Len(observed) + 1

RECURSIVE SumOf(_)
SumOf(obs) ==
    IF obs = <<>> THEN 0 ELSE obs[1][1][1] + SumOf(Tail(obs))

ValuesOf(obs) == {obs[i][1] : i \in 1..Len(obs)}

\* C9: after a non-empty sequence of Updates since NewHistogram or the last
\* Clear, Count() is their number, Sum() their sum, Min() their minimum and
\* Max() their maximum, so Min() <= Max(); after a single Update the three
\* equal its value.
C9_AggregatesOfObserved ==
    Len(observed) > 0 =>
        /\ HistCount(hist) = Len(observed)
        /\ HistSum(hist) = FromInt(SumOf(observed))
        /\ HistMin(hist) \in ValuesOf(observed)
        /\ \A v \in ValuesOf(observed) : ~FLess(v, HistMin(hist))
        /\ HistMax(hist) \in ValuesOf(observed)
        /\ \A v \in ValuesOf(observed) : ~FLess(HistMax(hist), v)
        /\ ~FLess(HistMax(hist), HistMin(hist))
        /\ Len(observed) = 1 =>
               /\ HistMin(hist) = observed[1][1]
               /\ HistMax(hist) = observed[1][1]
               /\ HistSum(hist) = observed[1][1]

\* C9 witness: three Updates after a Clear, the smallest value last and the
\* largest in the middle
C9_Witness ==
    /\ cleared
    /\ Len(observed) = 3
    /\ FLess(observed[3][1], observed[1][1])
    /\ FLess(observed[1][1], observed[2][1])

\* C10: on an empty Histogram Min() and Max() are NaN, Mean() and Variance()
\* are 0 and Percentiles(ps) is Len(ps) zeros; on a Histogram of finite
\* observations Min() and Max() are NaN only then.
C10_EmptySentinels ==
    /\ hist.count = 0 =>
           /\ IsNaN(HistMin(hist))
           /\ IsNaN(HistMax(hist))
           /\ HistMean(hist) = Zero
           /\ HistVariance(hist) = Zero
           /\ \A ps \in PercentileArgs :
                  HistPercentiles(hist, sample, ps) = [i \in 1..Len(ps) |-> Zero]
    /\ hist.count > 0 => ~IsNaN(HistMin(hist)) /\ ~IsNaN(HistMax(hist))

\* C10 witness: a Histogram emptied by Clear after Updates
C10_Witness ==
    /\ hist.count = 0
    /\ cleared
    /\ histOps > 2

\* the values retained in the sample
Retained == {sample.values[i] : i \in 1..Len(sample.values)}

\* C11: on a non-empty Histogram Percentiles([0.0]) is the minimum and
\* Percentiles([1.0]) the maximum of the values retained in the sample, for
\* every sample size from 1 on; they are Min() and Max() while the reservoir
\* has evicted nothing.
C11_PercentileEnds ==
    hist.count > 0 =>
        LET lo == HistPercentiles(hist, sample, <<Zero>>)[1]
            hi == HistPercentiles(hist, sample, <<One>>)[1]
        IN  /\ lo \in Retained
            /\ \A v \in Retained : ~FLess(v, lo)
            /\ hi \in Retained
            /\ \A v \in Retained : ~FLess(hi, v)
            /\ Len(observed) <= ReservoirSize =>
                   lo = HistMin(hist) /\ hi = HistMax(hist)

\* C11 witness: a full reservoir holding its values out of order, after an
\* eviction of the Histogram's minimum
C11_Witness ==
    /\ Len(observed) > ReservoirSize
    /\ FLess(sample.values[2], sample.values[1])
    /\ HistMin(hist) \notin Retained

\* C16: the sample never holds more than ReservoirSize values: after K
\* Updates since NewHistogram or the last Clear it holds min(K, ReservoirSize)
\* of them, which is min(Count(), ReservoirSize), and so at least one
\* whenever Count() > 0.
C16_SampleLenIsMin ==
    LET K == Len(observed)
        N == ReservoirSize
    IN  /\ SampleLen(sample) = IF K < N THEN K ELSE N
        /\ Len(HistValues(sample)) = IF HistCount(hist) < N THEN HistCount(hist) ELSE N
        /\ HistCount(hist) > 0 => SampleLen(sample) > 0

\* C16 witness: more Updates than the reservoir holds, after a Clear
C16_Witness ==
    /\ cleared
    /\ Len(observed) > ReservoirSize

\* the estimate for p over the sorted values, as the formula states it
ExpectedScore(sorted, p) ==
    LET n == Len(sorted)
        pos == FMul(p, FromInt(n + 1))
    IN  IF FLess(pos, One) THEN sorted[1]
        ELSE IF ~FLess(pos, FromInt(n)) THEN sorted[n]
        ELSE LET k == CHOOSE j \in 1..(n - 1) :
                          ~FLess(pos, FromInt(j)) /\ FLess(pos, FromInt(j + 1))
             IN  FAdd(sorted[k],
                      FMul(FSub(pos, FromInt(k)), FSub(sorted[k + 1], sorted[k])))

\* C17: on a non-empty Histogram whose sorted snapshot has n values,
\* Percentiles(ps) has one score per ps[i], in order: with pos = ps[i] * (n + 1),
\* the smallest value if pos < 1, the largest if pos >= n, and otherwise
\* sorted[k] + (pos - k) * (sorted[k + 1] - sorted[k]) for k = floor(pos), a
\* rank in 1..n-1.
C17_PercentileFormula ==
    hist.count > 0 =>
        \A ps \in PercentileArgs :
            LET sorted == SortFloats(HistValues(sample))
                scores == HistPercentiles(hist, sample, ps)
            IN  /\ DOMAIN scores = 1..Len(ps)
                /\ \A i \in 1..Len(ps) : scores[i] = ExpectedScore(sorted, ps[i])

\* C17 witness: a snapshot of at least two values with different neighbours,
\* so that the median is interpolated
C17_Witness ==
    /\ Len(sample.values) >= 2
    /\ sample.values[1] # sample.values[2]
    /\ cleared

\* C15 as stated: after the values 1..SeriesLen, each once and in order,
\* Variance() is the variance of the discrete uniform distribution over
\* 1..SeriesLen, (SeriesLen^2 - 1) / 12.
C15_VarianceIsUniformClosedForm ==
    hist.count = SeriesLen =>
        HistVariance(hist) = Norm(SeriesLen * SeriesLen - 1, 12)

\* C15 amended: after the values 1..n, each once and in order, Variance() is
\* S / (n - 1) with S = n * (n^2 - 1) / 12 from the Welford accumulators,
\* which is the sample variance n * (n + 1) / 12 (2525/3 for n = 100), and 0
\* for n <= 1.
C15_VarianceIsSampleVariance ==
    LET n == hist.count
    IN  /\ n = Len(observed)
        /\ n >= 1 => hist.varianceS = Norm(n * (n * n - 1), 12)
        /\ HistVariance(hist) = IF n <= 1 THEN Zero ELSE Norm(n * (n + 1), 12)
        /\ n >= 2 => HistVariance(hist) = FDiv(hist.varianceS, FromInt(n - 1))

\* C15 witness: all of 1..SeriesLen was fed, and all of it is in the sample
C15_Witness ==
    /\ hist.count = SeriesLen
    /\ Len(sample.values) = SeriesLen
    /\ HistMin(hist) = One
    /\ HistMax(hist) = FromInt(SeriesLen)

(***************************************************************************)
(* Meter: the tick watcher                                                 *)
(***************************************************************************)
\* one firing: the 1-minute, then the 5-minute, then the 15-minute Tick
FiringLog ==
    << <<"begin", "m1Rate">>, <<"end", "m1Rate">>,
       <<"begin", "m5Rate">>, <<"end", "m5Rate">>,
       <<"begin", "m15Rate">>, <<"end", "m15Rate">> >>

IsPrefix(s, t) == Len(s) <= Len(t) /\ s = SubSeq(t, 1, Len(s))

\* C12: every firing of the tick watcher ticks the 1-minute, the 5-minute and
\* the 15-minute EWMA in this order, each Tick ending before the next begins,
\* and a firing begins only when the three Ticks of the firing before are
\* complete.
C12_TicksInOrderNoOverlap ==
    /\ [](IsPrefix(tickLog, FiringLog))
    /\ [](wpc = "select" => tickLog \in {<<>>, FiringLog})
    /\ [][tickerC' < tickerC => tickLog \in {<<>>, FiringLog} /\ tickLog' = <<>>]_vars

\* C12 witness: a second firing is under way after a complete first one
C12_Witness ==
    /\ events >= 2
    /\ tickLog = SubSeq(FiringLog, 1, 3)
    /\ \A e \in EwmaNames : consumed[e] # Zero

\* C18: once Stop() has closed the stop channel the tick watcher leaves its
\* loop: in every state after the close it has returned or has a step to
\* take, so it never stays in the loop for good.
C18_WatcherExitsAfterStop ==
    stopChanClosed => (wpc = "done" \/ ENABLED tickWatcher)

(***************************************************************************)
(* StatHatReporter: the claims                                             *)
(***************************************************************************)
\* goroutine g waits in its select for a close channel that is still open
Waiting(g) ==
    /\ rGos[g].pc = "select"
    /\ rGos[g].closeChan # 0
    /\ ~rChans[rGos[g].closeChan]

\* C19: whatever Start() and Stop() calls are made one after the other, at
\* most one reporting goroutine waits for further ticks at any time, every
\* goroutine whose Start() was followed by a Stop() has returned or has a step
\* to take (it is not left waiting), and no Stop() closes a closed channel.
C19_OneGoroutinePerStart ==
    /\ Cardinality({g \in 1..Len(rGos) : Waiting(g)}) <= 1
    /\ \A g \in 1..Len(rGos) :
           rChans[g] => (rGos[g].pc = "done" \/ ENABLED GoStep(g))
    /\ ~rPanicked

====
